---- MODULE Spec2Model ----
(***************************************************************************)
(* Model of experiments/deployer.py: the constraint parser                 *)
(* (ANNOTATION_REGEX, parse_annotation, Annotation.__init__), the          *)
(* predicate evaluator (Annotation.is_satisfied), the group resolver       *)
(* (host_belong_group) and main(), which resolves the groups, assembles    *)
(* the inventory, writes it with yaml.dump and runs ansible-playbook.      *)
(*                                                                         *)
(* Python strings are sequences of one-character strings.  Numbers are     *)
(* records [m, x] standing for m * 10^x, so that the int and float         *)
(* literals of the code compare as Python compares them.                   *)
(***************************************************************************)
EXTENDS Integers, Sequences, FiniteSets, TLC

VARIABLES
    \* ---- list comprehension of main(), line 219, run on its own ----
    constraints,    \* the constraint string being parsed
    clauses,        \* constraints.split(",")
    results,        \* results of parse_annotation, one per clause so far
    ppc,            \* "split" | "parse" | "done" | "raised"
    \* ---- host_belong_group, one call ----
    capabilites,    \* host.capabilites as the ordered list of its items
    annotations,    \* the annotations argument
    temp,           \* the accumulator
    ci,             \* index of the next capability of the outer loop
    evaluated,      \* <<capability index, annotation index>> of every is_satisfied call
    hpc,            \* "loop" | "returned" | "raised" | "done"
    \* ---- main() ----
    input_config,   \* [groups, hosts]
    gi,             \* index of the next group of the loop of line 216
    mapping,        \* ordered dict: sequence of [name, hosts]
    all_childer,    \* ordered dict: sequence of [name, hosts]
    inventory,      \* the file args.output_inventory: NotWritten or the dumped document
    playbook_runs,  \* number of subprocess.run calls
    error,          \* NoError or the exception that ended main()
    pc              \* "resolve" | "assemble" | "write" | "deploy" | "done" | "aborted"

parseVars  == <<constraints, clauses, results, ppc>>
belongVars == <<capabilites, annotations, temp, ci, evaluated, hpc>>
mainVars   == <<input_config, gi, mapping, all_childer, inventory, playbook_runs, error, pc>>
vars       == <<parseVars, belongVars, mainVars>>

----------------------------------------------------------------------------
(* Characters and strings                                                  *)

DigitChars == <<"0", "1", "2", "3", "4", "5", "6", "7", "8", "9">>
Digits     == {DigitChars[i] : i \in 1..10}
Letters    == {"c", "p", "u", "z", "o", "n", "e", "s"}

\* \w of the regular expression, on the characters the model uses
IsWord(ch)  == ch \in Letters \cup Digits
\* \s of the regular expression, on the characters the model uses
IsSpace(ch) == ch = " "

DigitVal(ch) == (CHOOSE i \in 1..10 : DigitChars[i] = ch) - 1

RECURSIVE Pow10(_)
Pow10(n) == IF n <= 0 THEN 1 ELSE 10 * Pow10(n - 1)

RECURSIVE DecVal(_)
DecVal(s) == IF s = <<>> THEN 0
             ELSE 10 * DecVal(SubSeq(s, 1, Len(s) - 1)) + DigitVal(s[Len(s)])

AllDigits(s) == \A i \in 1..Len(s) : s[i] \in Digits

\* first position of ch in s, 0 when absent
IndexOf(s, ch) == IF \E i \in 1..Len(s) : s[i] = ch
                  THEN CHOOSE i \in 1..Len(s) : s[i] = ch /\ \A j \in 1..(i - 1) : s[j] # ch
                  ELSE 0

RECURSIVE WordRun(_, _)
WordRun(s, i) == IF i <= Len(s) /\ IsWord(s[i]) THEN 1 + WordRun(s, i + 1) ELSE 0

RECURSIVE SpaceRun(_, _)
SpaceRun(s, i) == IF i <= Len(s) /\ IsSpace(s[i]) THEN 1 + SpaceRun(s, i + 1) ELSE 0

HasAt(s, i, lit) == /\ i + Len(lit) - 1 <= Len(s)
                    /\ \A k \in 1..Len(lit) : s[i + k - 1] = lit[k]

\* str.split(sep) for a one-character separator
RECURSIVE split(_, _)
split(s, sep) ==
    LET i == IndexOf(s, sep) IN
    IF i = 0 THEN <<s>>
    ELSE <<SubSeq(s, 1, i - 1)>> \o split(SubSeq(s, i + 1, Len(s)), sep)

----------------------------------------------------------------------------
(* Values, exceptions                                                      *)

NoString == <<>>
IntVal(n)      == [type |-> "int",   m |-> n, x |-> 0, s |-> NoString]
FloatVal(m, x) == [type |-> "float", m |-> m, x |-> x, s |-> NoString]
StrVal(s)      == [type |-> "str",   m |-> 0, x |-> 0, s |-> s]

IsNumber(v) == v.type \in {"int", "float"}

\* the two numbers brought to a common power of ten
Scaled(v, w) == v.m * Pow10(v.x - (IF v.x < w.x THEN v.x ELSE w.x))

NumEq(v, w) == Scaled(v, w) = Scaled(w, v)
NumLt(v, w) == Scaled(v, w) < Scaled(w, v)

Raise(kind, arg) == [exc |-> kind, arg |-> arg]
IsExc(r) == "exc" \in DOMAIN r

----------------------------------------------------------------------------
(* Annotation.__init__ : int(value), then float(value), then str(value)    *)

\* int(value) succeeds
IntOk(value) == Len(value) > 0 /\ AllDigits(value)

MantissaOk(mt) ==
    LET d == IndexOf(mt, ".") IN
    IF d = 0 THEN Len(mt) > 0 /\ AllDigits(mt)
    ELSE /\ AllDigits(SubSeq(mt, 1, d - 1))
         /\ AllDigits(SubSeq(mt, d + 1, Len(mt)))
         /\ Len(mt) > 1

\* float(value) succeeds: digits, optional fraction, optional exponent
FloatOk(value) ==
    LET e == IndexOf(value, "e") IN
    IF e = 0 THEN MantissaOk(value)
    ELSE /\ MantissaOk(SubSeq(value, 1, e - 1))
         /\ e < Len(value)
         /\ AllDigits(SubSeq(value, e + 1, Len(value)))

FloatOf(value) ==
    LET e    == IndexOf(value, "e")
        mt   == IF e = 0 THEN value ELSE SubSeq(value, 1, e - 1)
        ex   == IF e = 0 THEN 0 ELSE DecVal(SubSeq(value, e + 1, Len(value)))
        d    == IndexOf(mt, ".")
        whole == IF d = 0 THEN mt ELSE SubSeq(mt, 1, d - 1)
        frac  == IF d = 0 THEN <<>> ELSE SubSeq(mt, d + 1, Len(mt))
    IN FloatVal(DecVal(whole \o frac), ex - Len(frac))

Coerce(value) ==
    IF IntOk(value) THEN IntVal(DecVal(value))
    ELSE IF FloatOk(value) THEN FloatOf(value)
    ELSE StrVal(value)

Annotation(key, op, value) == [key |-> key, op |-> op, value |-> Coerce(value)]

----------------------------------------------------------------------------
(* ANNOTATION_REGEX and parse_annotation                                   *)

\* the alternation (=|<|>|<=|>=), in the order the regex lists it
OPERATORS == << <<"=">>, <<"<">>, <<">">>, <<"<", "=">>, <<">", "=">> >>

NoMatch == <<>>

\* The match re.match finds when the operator group takes alternative a.
\* \w, \s and the operator characters are disjoint, so the greedy runs
\* (\w+), \s* have one possible length each and backtracking only ever
\* moves to the next alternative.
AltMatch(s, a) ==
    LET k     == WordRun(s, 1)
        j     == k + SpaceRun(s, k + 1)
        after == j + Len(OPERATORS[a])
        m     == after + SpaceRun(s, after + 1)
        t     == WordRun(s, m + 1)
    IN IF k > 0 /\ HasAt(s, j + 1, OPERATORS[a]) /\ t > 0
       THEN <<SubSeq(s, 1, k), OPERATORS[a], SubSeq(s, m + 1, m + t)>>
       ELSE NoMatch

\* re.match(ANNOTATION_REGEX, s).groups(), or NoMatch
re_match(s) ==
    IF \E a \in 1..Len(OPERATORS) : AltMatch(s, a) # NoMatch
    THEN AltMatch(s, CHOOSE a \in 1..Len(OPERATORS) :
                        /\ AltMatch(s, a) # NoMatch
                        /\ \A b \in 1..(a - 1) : AltMatch(s, b) = NoMatch)
    ELSE NoMatch

parse_annotation(annotation) ==
    LET match == re_match(annotation) IN
    IF match = NoMatch THEN Raise("ValueError", annotation)
    ELSE Annotation(match[1], match[2], match[3])

\* [parse_annotation(a) for a in cs]: the results up to and including the
\* first one that raises; the comprehension stops there
RECURSIVE ParseAll(_)
ParseAll(cs) ==
    IF cs = <<>> THEN <<>>
    ELSE LET r == parse_annotation(Head(cs)) IN
         IF IsExc(r) THEN <<r>> ELSE <<r>> \o ParseAll(Tail(cs))

Raised(rs) == Len(rs) > 0 /\ IsExc(rs[Len(rs)])

----------------------------------------------------------------------------
(* Annotation.is_satisfied                                                 *)

Return(b) == [ret |-> b]

EQ == <<"=">>
LT == <<"<">>
GT == <<">">>
LE == <<"<", "=">>
GE == <<">", "=">>

\* Python's value == literal on int, float and str
PyEq(value, literal) ==
    IF IsNumber(value) /\ IsNumber(literal) THEN NumEq(value, literal)
    ELSE IF value.type = "str" /\ literal.type = "str" THEN value.s = literal.s
    ELSE FALSE

\* Python's value <op> literal for a numeric literal: a str on the left
\* is a TypeError
PyOrder(op, value, literal) ==
    IF ~IsNumber(value) THEN Raise("TypeError", value)
    ELSE Return(CASE op = LT -> NumLt(value, literal)
                  [] op = GT -> NumLt(literal, value)
                  [] op = LE -> ~NumLt(literal, value)
                  [] op = GE -> ~NumLt(value, literal))

\* is_satisfied with the string literal let through to the comparison of
\* an ordering operator, which then answers False
is_satisfied_lenient(annotation, value) ==
    IF annotation.op = EQ
    THEN Return(PyEq(value, annotation.value))
    ELSE IF annotation.op \in {LT, GT, LE, GE}
    THEN IF annotation.value.type \in {"int", "float"}
         THEN PyOrder(annotation.op, value, annotation.value)
         ELSE Return(FALSE)
    ELSE Raise("ValueError", annotation.op)

is_satisfied(annotation, value) ==
    IF annotation.op = EQ
    THEN IF annotation.value.type \in {"str", "int", "float"}
         THEN Return(PyEq(value, annotation.value))
         ELSE Raise("ValueError", annotation.value)
    ELSE IF annotation.op \in {LT, GT, LE, GE}
    THEN IF annotation.value.type \in {"int", "float"}
         THEN PyOrder(annotation.op, value, annotation.value)
         ELSE Raise("ValueError", annotation.value)
    ELSE Raise("ValueError", annotation.op)

----------------------------------------------------------------------------
(* host_belong_group                                                       *)

\* temp = b
AndAssign_overwrite(t, b) == b

\* temp &= b
AndAssign(t, b) == t /\ b

\* The inner loop of line 160 for the capability cap = [name, value],
\* from annotation k on: the accumulator, the is_satisfied calls made (as
\* [ann, result]) and the exception that ended the loop, if any.
RECURSIVE InnerLoop(_, _, _, _, _)
InnerLoop(cap, anns, k, t, calls) ==
    IF k > Len(anns) THEN [temp |-> t, calls |-> calls, exc |-> "None"]
    ELSE IF anns[k].key = cap.name
    THEN LET r == is_satisfied(anns[k], cap.value)
             log == Append(calls, [ann |-> k, result |-> r])
         IN IF IsExc(r) THEN [temp |-> t, calls |-> log, exc |-> r.exc]
            ELSE InnerLoop(cap, anns, k + 1, AndAssign(t, r.ret), log)
    ELSE InnerLoop(cap, anns, k + 1, t, calls)

\* the outer loop of line 159 from capability i on, then return temp
RECURSIVE OuterLoop(_, _, _, _)
OuterLoop(caps, anns, i, t) ==
    IF i > Len(caps) THEN Return(t)
    ELSE LET r == InnerLoop(caps[i], anns, 1, t, <<>>) IN
         IF r.exc # "None" THEN Raise(r.exc, caps[i].name)
         ELSE IF ~r.temp THEN Return(r.temp)
         ELSE OuterLoop(caps, anns, i + 1, r.temp)

host_belong_group(host, anns) == OuterLoop(host.capabilites, anns, 1, TRUE)

\* position of key in an ordered dict, 0 when absent
KeyIndex(dict, key) ==
    IF \E i \in 1..Len(dict) : dict[i].name = key
    THEN CHOOSE i \in 1..Len(dict) : dict[i].name = key
    ELSE 0

\* the append made on the first list of the mapping instead of the group's own
SetDefaultAppend_first(mp, gname, hname) ==
    IF mp = <<>> THEN <<[name |-> gname, hosts |-> <<hname>>]>>
    ELSE [mp EXCEPT ![1].hosts = Append(@, hname)]

\* mapping.setdefault(gname, []).append(hname)
SetDefaultAppend(mp, gname, hname) ==
    LET k == KeyIndex(mp, gname) IN
    IF k = 0 THEN Append(mp, [name |-> gname, hosts |-> <<hname>>])
    ELSE [mp EXCEPT ![k].hosts = Append(@, hname)]

----------------------------------------------------------------------------
(* Idle values of the three groups of variables                            *)

NotWritten == [written |-> FALSE, groups |-> <<>>]
NoError    == [exc |-> "None", arg |-> <<>>]

IdleParse  == /\ constraints = <<>> /\ clauses = <<>> /\ results = <<>>
              /\ ppc = "idle"
IdleBelong == /\ capabilites = <<>> /\ annotations = <<>> /\ temp = TRUE
              /\ ci = 0 /\ evaluated = <<>> /\ hpc = "idle"
IdleMain   == /\ input_config = [groups |-> <<>>, hosts |-> <<>>]
              /\ gi = 0 /\ mapping = <<>> /\ all_childer = <<>>
              /\ inventory = NotWritten /\ playbook_runs = 0
              /\ error = NoError /\ pc = "idle"

----------------------------------------------------------------------------
(* The comprehension of line 219 on its own: constraint strings in,        *)
(* annotations or an exception out                                         *)

MaxClauseLen == 5
MaxSpaces    == 1

ParseChars == {"e", "4", "5", ".", "=", "<", ">", " ", ","}

ShortStrings == UNION {[1..k -> ParseChars] : k \in 1..MaxClauseLen}

Spaces(n) == [i \in 1..n |-> " "]

\* one clause "e<op>4" with runs of spaces before, between and after its tokens
SpacedClauses ==
    {Spaces(w[1]) \o <<"e">> \o Spaces(w[2]) \o OPERATORS[a] \o Spaces(w[3])
        \o <<"4">> \o Spaces(w[4]) :
        w \in [1..4 -> 0..MaxSpaces], a \in 1..Len(OPERATORS)}

SpacedPairs == {c \o <<",">> \o d : c \in SpacedClauses, d \in SpacedClauses}

InitParse ==
    /\ constraints \in ShortStrings \cup SpacedPairs
    /\ clauses = <<>>
    /\ results = <<>>
    /\ ppc = "split"
    /\ IdleBelong
    /\ IdleMain

\* group.constraints.split(",")
SplitConstraints ==
    /\ ppc = "split"
    /\ clauses' = split(constraints, ",")
    /\ ppc' = "parse"
    /\ UNCHANGED <<constraints, results, belongVars, mainVars>>

\* one parse_annotation(a) of the comprehension
ParseClause ==
    /\ ppc = "parse"
    /\ LET r == parse_annotation(clauses[Len(results) + 1]) IN
       /\ results' = Append(results, r)
       /\ ppc' = IF IsExc(r) THEN "raised"
                 ELSE IF Len(results) + 1 = Len(clauses) THEN "done"
                 ELSE "parse"
    /\ UNCHANGED <<constraints, clauses, belongVars, mainVars>>

NextParse == SplitConstraints \/ ParseClause

SpecParse == InitParse /\ [][NextParse]_vars

----------------------------------------------------------------------------
(* One call of host_belong_group, one iteration of its outer loop at a     *)
(* time                                                                    *)

MaxAnnotations == 2

CPU  == <<"c", "p", "u">>
ZONE == <<"z", "o", "n", "e">>
EU   == <<"e", "u">>

CapabilityNames  == {CPU, ZONE}
CapabilityValues == {IntVal(8), FloatVal(45, -1), StrVal(EU)}
LiteralTokens    == {<<"4">>, <<"4", "e", "1">>, EU}

\* the annotations Annotation.__init__ can build from the tokens
AnnotationSet ==
    {Annotation(k, OPERATORS[a], t) :
        k \in CapabilityNames, a \in 1..Len(OPERATORS), t \in LiteralTokens}

AnnotationLists == UNION {[1..n -> AnnotationSet] : n \in 1..MaxAnnotations}

Capabilities == [name : CapabilityNames, value : CapabilityValues]

\* a dict has each name once; its items keep their insertion order
CapabilityLists ==
    {<<>>} \cup {<<c>> : c \in Capabilities}
           \cup {p \in Capabilities \X Capabilities : p[1].name # p[2].name}

InitBelong ==
    /\ capabilites \in CapabilityLists
    /\ annotations \in AnnotationLists
    /\ temp = TRUE
    /\ ci = 1
    /\ evaluated = <<>>
    /\ hpc = "loop"
    /\ IdleParse
    /\ IdleMain

\* the loop going on after a capability that left temp false
AfterCapability_nobreak(r) ==
    IF r.exc # "None" THEN "raised" ELSE "loop"

\* where host_belong_group is after the inner loop gave r: the exception
\* leaves it, "if not temp: break" leads to the return, else the loop goes on
AfterCapability(r) ==
    IF r.exc # "None" THEN "raised"
    ELSE IF ~r.temp THEN "returned"
    ELSE "loop"

\* the names of the group and of the host of the caller, lines 216 and 221
CallerGroup == "g"
CallerHost  == "h"

\* one iteration of "for name, value in host.capabilites.items()":
\* the inner loop, then "if not temp: break" and the return after it
ScanCapability ==
    /\ hpc = "loop"
    /\ ci <= Len(capabilites)
    /\ LET r == InnerLoop(capabilites[ci], annotations, 1, temp, <<>>) IN
       /\ evaluated' = evaluated \o
              [n \in 1..Len(r.calls) |->
                  [cap |-> ci, ann |-> r.calls[n].ann, result |-> r.calls[n].result]]
       /\ temp' = r.temp
       /\ hpc' = AfterCapability(r)
       /\ ci' = ci + 1
    /\ UNCHANGED <<capabilites, annotations, parseVars, mainVars>>

\* the loop is exhausted: return temp
ReturnTemp ==
    /\ hpc = "loop"
    /\ ci > Len(capabilites)
    /\ hpc' = "returned"
    /\ UNCHANGED <<capabilites, annotations, temp, ci, evaluated, parseVars, mainVars>>

\* the caller, lines 222-223: the host is appended when the call returned True
AppendIfMember ==
    /\ hpc = "returned"
    /\ mapping' = IF temp THEN SetDefaultAppend(mapping, CallerGroup, CallerHost)
                  ELSE mapping
    /\ hpc' = "done"
    /\ UNCHANGED <<capabilites, annotations, temp, ci, evaluated, parseVars,
                   input_config, gi, all_childer, inventory, playbook_runs, error, pc>>

NextBelong == ScanCapability \/ ReturnTemp \/ AppendIfMember

SpecBelong == InitBelong /\ [][NextBelong]_vars

----------------------------------------------------------------------------
(* main(): resolve every group, assemble, write the inventory, deploy      *)

MaxGroups == 2
MaxHosts  == 2

\* group.constraints is absent
None == <<"None">>

\* "not group.constraints"
Falsy(c) == c = None \/ c = <<>>

\* names in the order Python's string comparison gives them
SortedNames == <<"a", "b", "c", "d", "e", "f">>
NameRank(name) == CHOOSE i \in 1..Len(SortedNames) : SortedNames[i] = name

\* n names declared in ascending or in descending order
Declared(n) == {[i \in 1..n |-> SortedNames[i]], [i \in 1..n |-> SortedNames[n + 1 - i]]}

ConstraintMenu ==
    { None,
      <<>>,
      CPU \o GE \o <<"4">>,
      CPU \o GE \o <<"1", "6">>,
      ZONE \o EQ \o EU,
      ZONE \o LT \o EU,
      ZONE \o EQ \o EU \o <<",">> \o CPU \o GE \o <<"4">>,
      CPU \o GE \o <<"1", "6">> \o <<",">> \o CPU \o GE \o <<"4">>,
      ZONE \o EQ \o EU \o <<",", " ">> \o CPU \o GE \o <<"4">> }

CapabilityMenu ==
    { <<>>,
      <<[name |-> CPU, value |-> IntVal(8)], [name |-> ZONE, value |-> StrVal(EU)]>>,
      <<[name |-> ZONE, value |-> StrVal(EU)], [name |-> CPU, value |-> IntVal(2)]>> }

GroupLists ==
    UNION {{[i \in 1..n |-> [name |-> names[i], constraints |-> cs[i]]] :
               names \in Declared(n), cs \in [1..n -> ConstraintMenu]} : n \in 0..MaxGroups}

HostLists ==
    UNION {{[i \in 1..n |-> [name |-> names[i], capabilites |-> caps[i]]] :
               names \in Declared(n), caps \in [1..n -> CapabilityMenu]} : n \in 0..MaxHosts}

\* the loop of line 221 from host i on: the mapping, and the exception
\* that ended the loop, if any
RECURSIVE ResolveHosts(_, _, _, _, _)
ResolveHosts(hosts, i, gname, anns, mp) ==
    IF i > Len(hosts) THEN [mapping |-> mp, error |-> NoError]
    ELSE LET r == host_belong_group(hosts[i], anns) IN
         IF IsExc(r) THEN [mapping |-> mp, error |-> r]
         ELSE ResolveHosts(hosts, i + 1, gname, anns,
                           IF r.ret THEN SetDefaultAppend(mp, gname, hosts[i].name) ELSE mp)

\* the iteration with a group without constraints skipped instead of raised
GroupIteration_skip(cfg, group, mp) ==
    IF Falsy(group.constraints)
    THEN [mapping |-> mp, error |-> NoError]
    ELSE LET anns == ParseAll(split(group.constraints, ",")) IN
         IF Raised(anns) THEN [mapping |-> mp, error |-> anns[Len(anns)]]
         ELSE ResolveHosts(cfg.hosts, 1, group.name, anns, mp)

\* one iteration of the loop of line 216, for group
GroupIteration(cfg, group, mp) ==
    IF Falsy(group.constraints)
    THEN [mapping |-> mp, error |-> Raise("ValueError", <<group.name>>)]
    ELSE LET anns == ParseAll(split(group.constraints, ",")) IN
         IF Raised(anns) THEN [mapping |-> mp, error |-> anns[Len(anns)]]
         ELSE ResolveHosts(cfg.hosts, 1, group.name, anns, mp)

\* input_config.get_host(name): the first host of that name (its position), 0 for the ValueError
get_host(cfg, name) ==
    IF \E i \in 1..Len(cfg.hosts) : cfg.hosts[i].name = name
    THEN CHOOSE i \in 1..Len(cfg.hosts) :
            /\ cfg.hosts[i].name = name
            /\ \A j \in 1..(i - 1) : cfg.hosts[j].name # name
    ELSE 0

\* {v: input_config.get_host(v).dump_ansible() for v in map_hosts}: a key
\* met again keeps its first position
RECURSIVE HostsDict(_, _)
HostsDict(cfg, map_hosts) ==
    IF map_hosts = <<>> THEN <<>>
    ELSE LET rest == HostsDict(cfg, SubSeq(map_hosts, 1, Len(map_hosts) - 1))
             v    == map_hosts[Len(map_hosts)]
         IN IF KeyIndex(rest, v) # 0 THEN rest
            ELSE Append(rest, [name |-> v, host |-> get_host(cfg, v)])

\* one entry per declared group instead of one per item of mapping
AssembleChildren_declared(cfg, mp) ==
    [k \in 1..Len(cfg.groups) |->
        [name  |-> cfg.groups[k].name,
         hosts |-> HostsDict(cfg, IF KeyIndex(mp, cfg.groups[k].name) = 0 THEN <<>>
                                  ELSE mp[KeyIndex(mp, cfg.groups[k].name)].hosts)]]

\* lines 225-259: one entry per item of mapping, whose values are lists
AssembleChildren(cfg, mp) ==
    [k \in 1..Len(mp) |-> [name |-> mp[k].name, hosts |-> HostsDict(cfg, mp[k].hosts)]]

\* an ordered dict with its items sorted by key
RECURSIVE SortByKey(_)
SortByKey(dict) ==
    IF dict = <<>> THEN <<>>
    ELSE LET k == CHOOSE i \in 1..Len(dict) :
                      \A j \in 1..Len(dict) : NameRank(dict[i].name) <= NameRank(dict[j].name)
         IN <<dict[k]>> \o SortByKey(SubSeq(dict, 1, k - 1) \o SubSeq(dict, k + 1, Len(dict)))

\* yaml.dump(output, f): sort_keys is left at its default, True, so every
\* mapping of the document is written with its keys sorted
dump(children) ==
    SortByKey([k \in 1..Len(children) |->
                  [name |-> children[k].name, hosts |-> SortByKey(children[k].hosts)]])

Init ==
    /\ input_config \in [groups : GroupLists, hosts : HostLists]
    /\ gi = 1
    /\ mapping = <<>>
    /\ all_childer = <<>>
    /\ inventory = NotWritten
    /\ playbook_runs = 0
    /\ error = NoError
    /\ pc = "resolve"
    /\ IdleParse
    /\ IdleBelong

\* lines 216-223, one group
ResolveGroup ==
    /\ pc = "resolve"
    /\ gi <= Len(input_config.groups)
    /\ LET r == GroupIteration(input_config, input_config.groups[gi], mapping) IN
       /\ mapping' = r.mapping
       /\ error' = r.error
       /\ IF r.error.exc = "None"
          THEN gi' = gi + 1 /\ pc' = "resolve"
          ELSE gi' = gi /\ pc' = "aborted"
    /\ UNCHANGED <<input_config, all_childer, inventory, playbook_runs, parseVars, belongVars>>

\* lines 225-259
Assemble ==
    /\ pc = "resolve"
    /\ gi > Len(input_config.groups)
    /\ all_childer' = AssembleChildren(input_config, mapping)
    /\ pc' = "write"
    /\ UNCHANGED <<input_config, gi, mapping, inventory, playbook_runs, error,
                   parseVars, belongVars>>

\* lines 261-274
WriteInventory ==
    /\ pc = "write"
    /\ inventory' = [written |-> TRUE, groups |-> dump(all_childer)]
    /\ pc' = "deploy"
    /\ UNCHANGED <<input_config, gi, mapping, all_childer, playbook_runs, error,
                   parseVars, belongVars>>

\* lines 276-290
RunPlaybook ==
    /\ pc = "deploy"
    /\ playbook_runs' = playbook_runs + 1
    /\ pc' = "done"
    /\ UNCHANGED <<input_config, gi, mapping, all_childer, inventory, error,
                   parseVars, belongVars>>

Next == ResolveGroup \/ Assemble \/ WriteInventory \/ RunPlaybook

Spec == Init /\ [][Next]_vars

----------------------------------------------------------------------------
(* The grammar of a clause, stated without the regular expression          *)

\* c is, in its entirety: identifier, spaces, operator, spaces, token;
\* the token made of characters of tokenChars
HasForm(c, key, a, value) ==
    \E w1 \in 0..Len(c), w2 \in 0..Len(c) :
        c = key \o Spaces(w1) \o OPERATORS[a] \o Spaces(w2) \o value

Prefixes(c) == {SubSeq(c, 1, k) : k \in 1..Len(c)}
Suffixes(c) == {SubSeq(c, k, Len(c)) : k \in 1..Len(c)}

AllIn(s, set) == \A i \in 1..Len(s) : s[i] \in set

WellFormedClause(c) ==
    \E key \in Prefixes(c), value \in Suffixes(c), a \in 1..Len(OPERATORS) :
        /\ AllIn(key, Letters \cup Digits)
        /\ AllIn(value, Letters \cup Digits)
        /\ HasForm(c, key, a, value)

\* a value as a clause may write it: an alphanumeric token or a number
\* with a decimal point
IsWrittenValue(value) ==
    \/ Len(value) > 0 /\ AllIn(value, Letters \cup Digits)
    \/ FloatOk(value)

\* the ways to read c, in its entirety, as identifier, spaces, operator,
\* spaces, written value
Written(c) ==
    {w \in Prefixes(c) \X (1..Len(OPERATORS)) \X Suffixes(c) :
        /\ AllIn(w[1], Letters \cup Digits)
        /\ IsWrittenValue(w[3])
        /\ HasForm(c, w[1], w[2], w[3])}

RECURSIVE Trim(_)
Trim(c) == IF c # <<>> /\ c[1] = " " THEN Trim(Tail(c))
           ELSE IF c # <<>> /\ c[Len(c)] = " " THEN Trim(SubSeq(c, 1, Len(c) - 1))
           ELSE c

RemoveSpaces(s) == SelectSeq(s, LAMBDA ch : ch # " ")

\* every clause is a well-formed clause with spaces around it
SpacedForm(s) ==
    LET cs == split(s, ",") IN \A i \in 1..Len(cs) : WellFormedClause(Trim(cs[i]))

----------------------------------------------------------------------------
(* Claims about the parser                                                 *)

\* C4: parse_annotation raises an error naming the clause for every clause
\* that is not, in its entirety, identifier, spaces, operator, spaces,
\* alphanumeric token.
C4_MalformedClauseRaises ==
    \A i \in 1..Len(results) :
        ~WellFormedClause(clauses[i])
            => IsExc(results[i]) /\ results[i].arg = clauses[i]

\* C5: the predicate parsed from a clause has the clause's key and operator
\* and the literal that int, then float, then str give on the value as it
\* is written in the clause ("4" an int, "4.5" a float, "eu" a string).
C5_LiteralTypedFromWrittenValue ==
    \A i \in 1..Len(results) :
        \A w \in Written(clauses[i]) :
            /\ ~IsExc(results[i])
            /\ results[i] = Annotation(w[1], OPERATORS[w[2]], w[3])

\* C10: a constraint whose clauses carry spaces around their tokens parses
\* to the same list of predicates as the constraint with the spaces removed.
C10_WhitespaceTolerated ==
    (ppc \in {"done", "raised"} /\ SpacedForm(constraints))
        => /\ ppc = "done"
           /\ results = ParseAll(split(RemoveSpaces(constraints), ","))

----------------------------------------------------------------------------
(* Claims about the evaluator and host_belong_group                        *)

\* the predicates whose key is a capability the host declares, with the
\* capability they apply to
Applicable ==
    {p \in (1..Len(capabilites)) \X (1..Len(annotations)) :
        annotations[p[2]].key = capabilites[p[1]].name}

Evaluation(p) == is_satisfied(annotations[p[2]], capabilites[p[1]].value)

\* C2: when no evaluation raises, host_belong_group returns true exactly
\* when every predicate whose key the host declares is satisfied by that
\* capability's value; a host that declares nothing is always a member.
C2_BelongIffDeclaredSatisfied ==
    (hpc = "returned" /\ \A p \in Applicable : ~IsExc(Evaluation(p)))
        => /\ temp = (\A p \in Applicable : Evaluation(p).ret)
           /\ (capabilites = <<>> => temp)

\* a host is kept although one predicate names a capability it lacks, and
\* another one is dropped by a predicate on a capability it declares
C2_Witness ==
    /\ hpc = "returned"
    /\ temp
    /\ Len(capabilites) = 1
    /\ Len(annotations) = 2
    /\ \E p \in Applicable : ~IsExc(Evaluation(p))
    /\ \E k \in 1..Len(annotations) : annotations[k].key # capabilites[1].name

OrderingOps == {LT, GT, LE, GE}

\* C6: is_satisfied with an ordering operator and a string literal ends in
\* an error for every host value; with = and a string literal it returns
\* true exactly when the host value equals the literal.
C6_StringLiteralEvaluation ==
    \A n \in 1..Len(evaluated) :
        LET a == annotations[evaluated[n].ann]
            v == capabilites[evaluated[n].cap].value
            r == evaluated[n].result
        IN a.value.type = "str" =>
              /\ a.op \in OrderingOps => IsExc(r)
              /\ a.op = EQ => /\ ~IsExc(r)
                              /\ r.ret = (v.type = "str" /\ v.s = a.value.s)

\* both cases have been evaluated in one call: = on a string literal that
\* the host value equals, then an ordering operator on a string literal
C6_Witness ==
    /\ hpc = "raised"
    /\ Len(evaluated) = 2
    /\ annotations[evaluated[1].ann].op = EQ
    /\ annotations[evaluated[1].ann].value.type = "str"
    /\ evaluated[1].result = Return(TRUE)
    /\ annotations[evaluated[2].ann].op \in OrderingOps
    /\ annotations[evaluated[2].ann].value.type = "str"

\* C11: once the accumulator is false after a capability, host_belong_group
\* has returned (false): no predicate is evaluated against a later
\* capability and the caller does not append the host.
C11_ShortCircuit ==
    /\ []((~temp /\ hpc # "raised") => hpc \in {"returned", "done"})
    /\ [][~temp => /\ evaluated' = evaluated
                   /\ temp' = temp
                   /\ ci' = ci
                   /\ mapping' = mapping]_vars

\* the first of two capabilities made the accumulator false; a predicate
\* on the second one was left unevaluated and the host was not appended
C11_Witness ==
    /\ hpc = "done"
    /\ ~temp
    /\ mapping = <<>>
    /\ Len(capabilites) = 2
    /\ ci = 2
    /\ \A n \in 1..Len(evaluated) : evaluated[n].cap = 1
    /\ \E k \in 1..Len(annotations) : annotations[k].key = capabilites[2].name

----------------------------------------------------------------------------
(* Claims about main()                                                     *)

Groups == input_config.groups
Hosts  == input_config.hosts

\* the annotations of a group whose constraints parse
AnnotationsOf(g) == ParseAll(split(Groups[g].constraints, ","))

\* host h satisfies the constraint of group g
Satisfies(h, g) == host_belong_group(Hosts[h], AnnotationsOf(g)) = Return(TRUE)

\* the names of the hosts that satisfy group g, in the order the hosts are declared
RECURSIVE MembersUpTo(_, _)
MembersUpTo(g, n) ==
    IF n = 0 THEN <<>>
    ELSE IF Satisfies(n, g) THEN Append(MembersUpTo(g, n - 1), Hosts[n].name)
    ELSE MembersUpTo(g, n - 1)

Members(g) == MembersUpTo(g, Len(Hosts))

Range(seq) == {seq[i] : i \in 1..Len(seq)}
Keys(dict) == {dict[i].name : i \in 1..Len(dict)}

\* dict[key], the empty list when key is absent
Lookup(dict, key) == IF KeyIndex(dict, key) = 0 THEN <<>> ELSE dict[KeyIndex(dict, key)].hosts

InvalidGroups == {g \in 1..Len(Groups) : Falsy(Groups[g].constraints)}

\* C1: when some group has an empty or absent constraint string, main()
\* ends in an error at that group or before it, the inventory file is never
\* written and the deployment command is never run.
C1_InvalidGroupAborts ==
    InvalidGroups # {} =>
        /\ pc \in {"resolve", "aborted"}
        /\ \A g \in InvalidGroups : gi <= g
        /\ pc = "aborted" => error.exc # "None"
        /\ inventory = NotWritten
        /\ all_childer = <<>>
        /\ playbook_runs = 0

\* the second group is the invalid one; the first was valid and resolved
C1_Witness ==
    /\ pc = "aborted"
    /\ Len(Groups) = 2
    /\ InvalidGroups = {2}
    /\ gi = 2
    /\ KeyIndex(mapping, Groups[1].name) # 0

\* the names of dict come in the order in which decl declares them
InDeclaredOrder(dict, decl) ==
    \A i \in 1..Len(dict), j \in 1..Len(dict) :
        i < j => KeyIndex(decl, dict[i].name) < KeyIndex(decl, dict[j].name)

\* C3: in the inventory main() writes, the groups come in the order the
\* configuration declares them and the hosts of each group in the order
\* the hosts are declared.
C3_DeclarationOrderKept ==
    inventory.written =>
        /\ InDeclaredOrder(inventory.groups, Groups)
        /\ \A k \in 1..Len(inventory.groups) :
              InDeclaredOrder(inventory.groups[k].hosts, Hosts)

\* a group whose constraints parse to a predicate with an ordering operator
\* and a string literal
StringOrderingGroups ==
    {g \in 1..Len(Groups) :
        /\ ~Falsy(Groups[g].constraints)
        /\ ~Raised(AnnotationsOf(g))
        /\ \E k \in 1..Len(AnnotationsOf(g)) :
              /\ AnnotationsOf(g)[k].op \in OrderingOps
              /\ AnnotationsOf(g)[k].value.type = "str"}

\* C7: when a group's constraint holds an ordering operator on a string
\* literal, main() aborts and writes no inventory, whatever the hosts.
C7_StringOrderingAborts ==
    StringOrderingGroups # {} =>
        /\ pc \in {"resolve", "aborted"}
        /\ inventory = NotWritten

\* C8: the membership list of every resolved group holds exactly the hosts
\* that satisfy that group's constraint, whatever other groups hold; a host
\* that satisfies several groups is in the list of each.
C8_MembershipPerGroup ==
    \A g \in 1..Len(Groups) :
        g < gi => Lookup(mapping, Groups[g].name) = Members(g)

\* one host is in the lists of both groups, the other in one only
C8_Witness ==
    /\ pc = "done"
    /\ Len(mapping) = 2
    /\ \E h \in Range(mapping[1].hosts) : h \in Range(mapping[2].hosts)
    /\ Range(mapping[1].hosts) # Range(mapping[2].hosts)

\* C9: after a run that did not abort, the inventory has an entry for a
\* group exactly when some host satisfies the group's constraint, and the
\* keys of the entry's hosts are exactly the names of those hosts.
C9_EntriesAreNonEmptyGroups ==
    inventory.written =>
        /\ \A g \in 1..Len(Groups) :
              /\ (Groups[g].name \in Keys(inventory.groups)) = (Members(g) # <<>>)
              /\ Keys(Lookup(inventory.groups, Groups[g].name)) = Range(Members(g))
        /\ Keys(inventory.groups) \subseteq {Groups[g].name : g \in 1..Len(Groups)}
        /\ Cardinality(Keys(inventory.groups)) = Len(inventory.groups)
        /\ \A k \in 1..Len(inventory.groups) :
              /\ inventory.groups[k].hosts # <<>>
              /\ Cardinality(Keys(inventory.groups[k].hosts)) = Len(inventory.groups[k].hosts)

\* two groups, one with one of the two hosts, the other with no member
C9_Witness ==
    /\ pc = "done"
    /\ Len(Groups) = 2
    /\ Len(Hosts) = 2
    /\ Len(inventory.groups) = 1
    /\ Len(inventory.groups[1].hosts) = 1

\* the constraint string c2 is c1 followed by further clauses
Extends(c1, c2) ==
    /\ ~Falsy(c1)
    /\ ~Falsy(c2)
    /\ Len(split(c1, ",")) < Len(split(c2, ","))
    /\ SubSeq(split(c2, ","), 1, Len(split(c1, ","))) = split(c1, ",")

\* a can be had from b by dropping elements
RECURSIVE IsSubsequence(_, _)
IsSubsequence(a, b) ==
    IF a = <<>> THEN TRUE
    ELSE IF b = <<>> THEN FALSE
    ELSE IF Head(a) = Head(b) THEN IsSubsequence(Tail(a), Tail(b))
    ELSE IsSubsequence(a, Tail(b))

\* C12: when the constraint of one resolved group is that of another
\* followed by further clauses, its members are members of the other, in
\* the same relative order.
C12_MoreClausesFewerMembers ==
    \A g1 \in 1..Len(Groups), g2 \in 1..Len(Groups) :
        (g1 < gi /\ g2 < gi /\ Extends(Groups[g1].constraints, Groups[g2].constraints))
            => IsSubsequence(Lookup(mapping, Groups[g2].name),
                             Lookup(mapping, Groups[g1].name))

\* the longer constraint kept one of the two members of the shorter one
C12_Witness ==
    /\ pc = "done"
    /\ \E g1 \in 1..Len(Groups), g2 \in 1..Len(Groups) :
          /\ Extends(Groups[g1].constraints, Groups[g2].constraints)
          /\ Len(Lookup(mapping, Groups[g1].name)) = 2
          /\ Len(Lookup(mapping, Groups[g2].name)) = 1

====
